---- MODULE Spec2Model ----
(***************************************************************************)
(* Model of leviso-cheat-guard (src/src/lib.rs): the three macros          *)
(* cheat_bail!, cheat_ensure!, cheat_check! and the CheckResult enum.      *)
(*                                                                         *)
(* A Rust string is modelled by the non-empty sequence of its lines, the   *)
(* pieces between its line feeds: "a\nb" is <<"a", "b">>, "a\n" is         *)
(* <<"a", "">>, "" is <<"">>.  The representation is one to one, so two    *)
(* strings are byte-identical exactly when their models are equal, and     *)
(* format! is concatenation (Cat).  The two output streams are the text    *)
(* written to them so far; the StepResult passed to cheat_check! is the    *)
(* sequence of the add_check calls it received.                            *)
(***************************************************************************)
EXTENDS Integers, Sequences, FiniteSets, TLC

(***************************************************************************)
(* Bounds of the model.                                                    *)
(***************************************************************************)
\* number of macro invocations in one behaviour
MaxCalls == 2
\* longest cheats = [...] list
MaxCheats == 3

(***************************************************************************)
(* Program constants.                                                      *)
(***************************************************************************)
\* "=".repeat(70), lib.rs:103
BailBorderWidth == 70
\* "=".repeat(60), lib.rs:201, 203, 209
CheckBorderWidth == 60

(***************************************************************************)
(* Strings.                                                                *)
(***************************************************************************)
\* a string without line feed
Str(s) == << s >>

\* "\n"
NL == << "", "" >>

\* concatenation of two strings
Cat(a, b) == SubSeq(a, 1, Len(a) - 1) \o << a[Len(a)] \o b[1] >> \o Tail(b)

\* concatenation of the pieces of a format string, in order
RECURSIVE Concat(_)
Concat(pieces) ==
  IF Len(pieces) = 0 THEN Str("") ELSE Cat(pieces[1], Concat(Tail(pieces)))

\* str::repeat, of a string without line feed
RECURSIVE RepeatStr(_, _)
RepeatStr(s, n) == IF n = 0 THEN "" ELSE s \o RepeatStr(s, n - 1)

Repeat(s, n) == Str(RepeatStr(s, n))

\* Display of one decimal digit
Digit(d) ==
  CASE d = 0 -> "0" [] d = 1 -> "1" [] d = 2 -> "2" [] d = 3 -> "3" [] d = 4 -> "4"
    [] d = 5 -> "5" [] d = 6 -> "6" [] d = 7 -> "7" [] d = 8 -> "8" [] d = 9 -> "9"

\* Display of a usize
RECURSIVE Decimal(_)
Decimal(n) == IF n < 10 THEN Digit(n) ELSE Decimal(n \div 10) \o Digit(n % 10)

(***************************************************************************)
(* Inputs the call sites supply.                                           *)
(***************************************************************************)
CheatPool ==
  << "Accept exit code without verification",
     "Skip partition check",
     "Accept any output",
     "Increase timeout",
     "Return Ok without checking" >>

Severities == << "CRITICAL", "HIGH", "MEDIUM", "LOW" >>

ProtectsPool ==
  << "Disk is partitioned correctly", "Root filesystem is mounted" >>

ConsequencePool ==
  << "No partitions, installation fails silently",
     "Files are written to the live medium" >>

Pick(pool, n) == pool[((n - 1) % Len(pool)) + 1]

\* the metadata of the call sites: site n documents n cheat vectors (the
\* pattern  cheats = [$($cheat:expr),+ $(,)?]  accepts no empty list)
Sites ==
  { [protects |-> Str(Pick(ProtectsPool, n)),
     severity |-> Str(Pick(Severities, n)),
     cheats |-> [k \in 1..n |-> Str(Pick(CheatPool, n + k - 1))],
     consequence |-> Str(Pick(ConsequencePool, n))] : n \in 1..MaxCheats }

Names == { Str("Partition table created"), Str("Root mounted") }

\* format!($($arg)*) of the trailing arguments
ErrorMsgs == { Str("Partition vda1 not found"), << "sfdisk failed", "exit status: 1" >> }

Expected(name) ==
  IF name = Str("Partition table created") THEN Str("Partition vda1 exists")
  ELSE Str("/mnt is a mountpoint")

Actual(name) ==
  IF name = Str("Partition table created")
    THEN << "sfdisk output: ", "Disk /dev/vda: 8 GiB" >>
    ELSE Str("findmnt output: ")

(***************************************************************************)
(* Formatting.                                                             *)
(***************************************************************************)
\* the closure with enumerate()'s index used as it comes, without the + 1
NumberedCheat_ZeroBased(i, c) ==
  Concat(<< Str("  "), Str(Decimal(i)), Str(". "), c >>)

\* the closure |(i, c)| format!("  {}. {}", i + 1, c); i is enumerate()'s
\* zero-based index
NumberedCheat(i, c) == Concat(<< Str("  "), Str(Decimal(i + 1)), Str(". "), c >>)

\* cheats_list.iter().enumerate().map(...).collect::<Vec<_>>()
NumberedCheats(cheats_list) ==
  [k \in 1..Len(cheats_list) |-> NumberedCheat(k - 1, cheats_list[k])]

\* [String]::join(sep)
RECURSIVE Join(_, _)
Join(v, sep) ==
  IF Len(v) = 0 THEN Str("")
  ELSE IF Len(v) = 1 THEN v[1]
  ELSE Concat(<< v[1], sep, Join(Tail(v), sep) >>)

\* let cheats_formatted: String = ... .join("\n")
CheatsFormatted(cheats_list) == Join(NumberedCheats(cheats_list), NL)

\* the format string without its ERROR section
BailReport_NoError(protects, severity, cheats_formatted, consequence, error_msg) ==
  LET border == Repeat("=", BailBorderWidth) IN
    Concat(<< NL, border, NL,
              Str("=== CHEAT-GUARDED FAILURE ==="), NL,
              border, NL, NL,
              Str("PROTECTS: "), protects, NL,
              Str("SEVERITY: "), severity, NL, NL,
              Str("CHEAT VECTORS:"), NL,
              cheats_formatted, NL, NL,
              Str("USER CONSEQUENCE:"), NL,
              consequence, NL,
              border, NL >>)

\* the format string of anyhow::bail! with its named arguments
BailReport(protects, severity, cheats_formatted, consequence, error_msg) ==
  LET border == Repeat("=", BailBorderWidth) IN
    Concat(<< NL, border, NL,
              Str("=== CHEAT-GUARDED FAILURE ==="), NL,
              border, NL, NL,
              Str("PROTECTS: "), protects, NL,
              Str("SEVERITY: "), severity, NL, NL,
              Str("CHEAT VECTORS:"), NL,
              cheats_formatted, NL, NL,
              Str("USER CONSEQUENCE:"), NL,
              consequence, NL, NL,
              Str("ERROR:"), NL,
              error_msg, NL,
              border, NL >>)

\* println! / eprintln!: the formatted text and a line feed
Println(stream, text) == Concat(<< stream, text, NL >>)

\* the failure branch with the consequence printed without its label
EprintlnText_NoLabel(line, name, protects, severity, cheats_formatted, consequence) ==
  CASE line = 201 -> Cat(NL, Repeat("=", CheckBorderWidth))
    [] line = 202 -> Cat(Str("CHEAT-GUARDED CHECK FAILED: "), name)
    [] line = 203 -> Repeat("=", CheckBorderWidth)
    [] line = 204 -> Cat(Str("PROTECTS: "), protects)
    [] line = 205 -> Cat(Str("SEVERITY: "), severity)
    [] line = 206 -> Str("CHEATS:")
    [] line = 207 -> cheats_formatted
    [] line = 208 -> consequence
    [] line = 209 -> Repeat("=", CheckBorderWidth)

\* the text of the eprintln! at each source line of the failure branch
EprintlnText(line, name, protects, severity, cheats_formatted, consequence) ==
  CASE line = 201 -> Cat(NL, Repeat("=", CheckBorderWidth))
    [] line = 202 -> Cat(Str("CHEAT-GUARDED CHECK FAILED: "), name)
    [] line = 203 -> Repeat("=", CheckBorderWidth)
    [] line = 204 -> Cat(Str("PROTECTS: "), protects)
    [] line = 205 -> Cat(Str("SEVERITY: "), severity)
    [] line = 206 -> Str("CHEATS:")
    [] line = 207 -> cheats_formatted
    [] line = 208 -> Cat(Str("CONSEQUENCE: "), consequence)
    [] line = 209 -> Repeat("=", CheckBorderWidth)

\* the progress notice with the name alone
ProgressText_NameOnly(name, protects) ==
  Concat(<< Str("    checking: "), name >>)

\* println!("    checking: {} (protects: {})", $name, $protects)
ProgressText(name, protects) ==
  Concat(<< Str("    checking: "), name, Str(" (protects: "), protects, Str(")") >>)

(***************************************************************************)
(* CheckResult.                                                            *)
(***************************************************************************)
Pass(expected) == [tag |-> "Pass", expected |-> expected, actual |-> Str("")]
Fail(expected, actual) == [tag |-> "Fail", expected |-> expected, actual |-> actual]

\* matches! on the other variant
passed_Inverted(r) == r.tag = "Fail"

\* matches!(self, CheckResult::Pass(_))
passed(r) == r.tag = "Pass"

(***************************************************************************)
(* State.                                                                  *)
(*   pc      0 when no macro is executing, else the source line of         *)
(*           cheat_check! that runs next                                   *)
(*   frame   the arguments and locals of the cheat_check! in progress      *)
(*   stdout  the progress stream, stderr the diagnostic stream             *)
(*   result  the StepResult: the add_check calls received, in order        *)
(*   ret     how the last completed invocation ended                       *)
(*   log     what the caller observed of each completed invocation:        *)
(*           its arguments, how it ended, and what it added to the         *)
(*           streams and to result                                         *)
(***************************************************************************)
VARIABLES pc, frame, stdout, stderr, result, ret, log

vars == << pc, frame, stdout, stderr, result, ret, log >>

NoFrame ==
  [op |-> "none", name |-> Str(""), cond |-> TRUE, protects |-> Str(""),
   severity |-> Str(""), cheats |-> <<>>, consequence |-> Str(""),
   expected |-> Str(""), actual |-> Str(""), error_msg |-> Str(""),
   cheats_formatted |-> Str(""), out0 |-> 0, err0 |-> 0, res0 |-> 0]

\* the arguments of an invocation of macro op at a call site
Call(op, site) ==
  [NoFrame EXCEPT !.op = op, !.protects = site.protects,
     !.severity = site.severity, !.cheats = site.cheats,
     !.consequence = site.consequence,
     !.out0 = Len(stdout), !.err0 = Len(stderr), !.res0 = Len(result)]

\* the invocation's block ends and control stays in the caller
Continue == [kind |-> "continue", payload |-> Str("")]
\* return Err(anyhow!(msg))
Err(msg) == [kind |-> "err", payload |-> msg]

\* what stream s holds beyond its first n0 lines (every invocation starts
\* at the beginning of line n0)
Written(s, n0) == SubSeq(s, n0, Len(s))

\* the caller's record of an invocation that has ended with outcome r, given
\* the streams and the StepResult as the invocation leaves them
Observed(f, r, out, err, res) ==
  [call |-> [f EXCEPT !.cheats_formatted = Str(""), !.out0 = 0, !.err0 = 0, !.res0 = 0],
   ret |-> r,
   out |-> Written(out, f.out0),
   err |-> Written(err, f.err0),
   added |-> SubSeq(res, f.res0 + 1, Len(res))]

Init ==
  /\ pc = 0
  /\ frame = NoFrame
  /\ stdout = Str("")
  /\ stderr = Str("")
  /\ result = <<>>
  /\ ret = [kind |-> "none", payload |-> Str("")]
  /\ log = <<>>

\* StepResult::add_check(name, result)
add_check(res, name, check) == Append(res, [name |-> name, check |-> check])

(***************************************************************************)
(* cheat_bail!                                                             *)
(***************************************************************************)
\* lines 80-109
BailOutcome(protects, severity, cheats, consequence, error_msg) ==
  LET cheats_list == cheats
      cheats_formatted == CheatsFormatted(cheats_list)
  IN Err(BailReport(protects, severity, cheats_formatted, consequence, error_msg))

cheat_bail ==
  /\ pc = 0
  /\ Len(log) < MaxCalls
  /\ \E site \in Sites, error_msg \in ErrorMsgs :
       LET f == [Call("bail", site) EXCEPT !.error_msg = error_msg]
           r == BailOutcome(f.protects, f.severity, f.cheats, f.consequence, f.error_msg)
       IN /\ ret' = r
          /\ log' = Append(log, Observed(f, r, stdout, stderr, result))
  /\ UNCHANGED << pc, frame, stdout, stderr, result >>

(***************************************************************************)
(* cheat_ensure!                                                           *)
(***************************************************************************)
\* the test without its negation
EnsureOutcome_Inverted(cond, protects, severity, cheats, consequence, error_msg) ==
  IF cond
    THEN BailOutcome(protects, severity, cheats, consequence, error_msg)
    ELSE Continue

\* lines 139-147
EnsureOutcome(cond, protects, severity, cheats, consequence, error_msg) ==
  IF ~cond
    THEN BailOutcome(protects, severity, cheats, consequence, error_msg)
    ELSE Continue

cheat_ensure ==
  /\ pc = 0
  /\ Len(log) < MaxCalls
  /\ \E cond \in BOOLEAN, site \in Sites, error_msg \in ErrorMsgs :
       LET f == [Call("ensure", site) EXCEPT !.cond = cond, !.error_msg = error_msg]
           r == EnsureOutcome(f.cond, f.protects, f.severity, f.cheats,
                              f.consequence, f.error_msg)
       IN /\ ret' = r
          /\ log' = Append(log, Observed(f, r, stdout, stderr, result))
  /\ UNCHANGED << pc, frame, stdout, stderr, result >>

(***************************************************************************)
(* cheat_check!                                                            *)
(***************************************************************************)
\* lines 186-192: the invocation binds cheats_list and _cheats_formatted
cheat_check ==
  /\ pc = 0
  /\ Len(log) < MaxCalls
  /\ \E name \in Names, cond \in BOOLEAN, site \in Sites :
       frame' = [Call("check", site) EXCEPT !.name = name, !.cond = cond,
                   !.expected = Expected(name), !.actual = Actual(name),
                   !.cheats_formatted = CheatsFormatted(site.cheats)]
  /\ pc' = 195
  /\ UNCHANGED << stdout, stderr, result, ret, log >>

\* the failure branch entered at its add_check, past the diagnostic block
check_println_SkipsBlock ==
  /\ pc = 195
  /\ stdout' = Println(stdout, ProgressText(frame.name, frame.protects))
  /\ pc' = IF frame.cond THEN 198 ELSE 211
  /\ UNCHANGED << frame, stderr, result, ret, log >>

\* the progress notice carrying a count of the checks recorded so far
check_println_Counter ==
  /\ pc = 195
  /\ stdout' = Println(stdout, Cat(ProgressText(frame.name, frame.protects),
                                   Str(" #" \o Decimal(Len(result) + 1))))
  /\ pc' = IF frame.cond THEN 198 ELSE 201
  /\ UNCHANGED << frame, stderr, result, ret, log >>

\* line 195 and the test of line 197
check_println ==
  /\ pc = 195
  /\ stdout' = Println(stdout, ProgressText(frame.name, frame.protects))
  /\ pc' = IF frame.cond THEN 198 ELSE 201
  /\ UNCHANGED << frame, stderr, result, ret, log >>

\* the end of the macro's block: the invocation evaluates to ()
CheckReturns(res) ==
  /\ pc' = 0
  /\ frame' = NoFrame
  /\ ret' = Continue
  /\ log' = Append(log, Observed(frame, Continue, stdout, stderr, res))

\* add_check with the name and the expectation exchanged
check_pass_Swapped ==
  /\ pc = 198
  /\ result' = add_check(result, frame.expected, Pass(frame.name))
  /\ CheckReturns(result')
  /\ UNCHANGED << stdout, stderr >>

\* line 198
check_pass ==
  /\ pc = 198
  /\ result' = add_check(result, frame.name, Pass(frame.expected))
  /\ CheckReturns(result')
  /\ UNCHANGED << stdout, stderr >>

\* lines 201-209, one eprintln! a step
check_eprintln ==
  /\ pc \in 201..209
  /\ stderr' = Println(stderr, EprintlnText(pc, frame.name, frame.protects,
                         frame.severity, frame.cheats_formatted, frame.consequence))
  /\ pc' = IF pc = 209 THEN 211 ELSE pc + 1
  /\ UNCHANGED << frame, stdout, result, ret, log >>

\* the failure raised to the caller instead of recorded
check_fail_Raises ==
  /\ pc = 211
  /\ pc' = 0
  /\ frame' = NoFrame
  /\ ret' = Err(frame.actual)
  /\ log' = Append(log, Observed(frame, Err(frame.actual), stdout, stderr, result))
  /\ UNCHANGED << stdout, stderr, result >>

\* lines 211-214
check_fail ==
  /\ pc = 211
  /\ result' = add_check(result, frame.name, Fail(frame.expected, frame.actual))
  /\ CheckReturns(result')
  /\ UNCHANGED << stdout, stderr >>

Next ==
  \/ cheat_bail
  \/ cheat_ensure
  \/ cheat_check
  \/ check_println
  \/ check_pass
  \/ check_eprintln
  \/ check_fail

Spec == Init /\ [][Next]_vars

(***************************************************************************)
(* What the claims are stated with.                                        *)
(***************************************************************************)
\* the border lines as the reports show them
Border70 == "======================================================================"
Border60 == "============================================================"

\* the check invocations among the completed ones, in call order
ChecksOf(l) == SelectSeq(l, LAMBDA e : e.call.op = "check")

\* the completed invocations that reported a failure
IsBail(e) == e.call.op = "bail"
IsEnsureFalse(e) == e.call.op = "ensure" /\ ~e.call.cond
IsEnsureTrue(e) == e.call.op = "ensure" /\ e.call.cond
IsCheckTrue(e) == e.call.op = "check" /\ e.call.cond
IsCheckFalse(e) == e.call.op = "check" /\ ~e.call.cond

SameArgs(c, d) ==
  /\ c.protects = d.protects
  /\ c.severity = d.severity
  /\ c.cheats = d.cheats
  /\ c.consequence = d.consequence
  /\ c.error_msg = d.error_msg

StartsWith(line, prefix) ==
  Len(line) >= Len(prefix) /\ SubSeq(line, 1, Len(prefix)) = prefix

\* nothing written to a stream by an invocation
Nothing == << "" >>

\* the line "  i. <entry>" of a one-line entry
NumberedLine(i, entry) == "  " \o ToString(i) \o ". " \o entry[1]

NumberedLines(cheats) == [i \in 1..Len(cheats) |-> NumberedLine(i, cheats[i])]

\* the positions of the lines of t that carry one of the numbers 0..n
NumberedAt(t, n) ==
  { l \in DOMAIN t : \E k \in 0..n : StartsWith(t[l], "  " \o ToString(k) \o ". ") }

\* the lines of the report of a failure, for one-line metadata
ReportLines(c) ==
  << "", Border70, "=== CHEAT-GUARDED FAILURE ===", Border70, "",
     "PROTECTS: " \o c.protects[1],
     "SEVERITY: " \o c.severity[1],
     "",
     "CHEAT VECTORS:" >>
  \o NumberedLines(c.cheats)
  \o << "", "USER CONSEQUENCE:", c.consequence[1], "", "ERROR:" >>
  \o c.error_msg
  \o << Border70, "" >>

\* the lines of the diagnostic block of a failing check, for one-line metadata
DiagnosticLines(c) ==
  << "", Border60, "CHEAT-GUARDED CHECK FAILED: " \o c.name[1], Border60,
     "PROTECTS: " \o c.protects[1],
     "SEVERITY: " \o c.severity[1],
     "CHEATS:" >>
  \o NumberedLines(c.cheats)
  \o << "CONSEQUENCE: " \o c.consequence[1], Border60, "" >>

ProgressLines(c) ==
  << "    checking: " \o c.name[1] \o " (protects: " \o c.protects[1] \o ")", "" >>

\* the entry a check invocation is to record
EntryOf(c) ==
  [name |-> c.name,
   check |-> IF c.cond THEN Pass(c.expected) ELSE Fail(c.expected, c.actual)]

InCheck == pc # 0 /\ frame.op = "check"

\* the statements of cheat_check!, each the guard of one step
CheckSteps == { 195, 198, 211 } \cup 201..209

(***************************************************************************)
(* C1.  cheat_ensure! with a true condition produces no failure and has    *)
(* no observable effect: control stays in the caller, nothing is written   *)
(* to either stream and the StepResult is untouched.  With a false         *)
(* condition it returns an error whose payload is byte-identical to the    *)
(* payload cheat_bail! produces for the same arguments.                    *)
(***************************************************************************)
C1_EnsureIsBailOnFalse ==
  \A i \in DOMAIN log :
    /\ IsEnsureTrue(log[i]) =>
         /\ log[i].ret.kind = "continue"
         /\ log[i].ret.payload = Nothing
         /\ log[i].out = Nothing
         /\ log[i].err = Nothing
         /\ log[i].added = << >>
    /\ IsEnsureFalse(log[i]) =>
         /\ log[i].ret.kind = "err"
         /\ log[i].ret.payload = ReportLines(log[i].call)
         /\ log[i].out = Nothing
         /\ log[i].err = Nothing
         /\ log[i].added = << >>
         /\ \A j \in DOMAIN log :
              IsBail(log[j]) /\ SameArgs(log[i].call, log[j].call)
                => log[j].ret = log[i].ret

C1_Witness ==
  \E i, j \in DOMAIN log :
    /\ IsEnsureFalse(log[i])
    /\ IsBail(log[j])
    /\ SameArgs(log[i].call, log[j].call)
    /\ Len(log[i].call.error_msg) > 1

(***************************************************************************)
(* C2.  cheat_check! never aborts the calling flow: every invocation ends  *)
(* with control in the caller, whatever its condition, and the StepResult  *)
(* holds one entry per completed check, in call order, entries of the      *)
(* same name being kept apart.  An invocation in progress is always at a   *)
(* statement of the macro, which is its next step.                         *)
(***************************************************************************)
C2_CheckNeverAborts ==
  LET cs == ChecksOf(log) IN
    /\ \A i \in DOMAIN log :
         log[i].call.op = "check" => log[i].ret = Continue /\ Len(log[i].added) = 1
    /\ Len(result) = Len(cs)
    /\ \A k \in DOMAIN cs : result[k] = EntryOf(cs[k].call)
    /\ InCheck => pc \in CheckSteps

C2_Witness ==
  /\ pc = 0
  /\ Len(result) = 2
  /\ result[1].name = result[2].name
  /\ result[1].check.tag = "Fail"
  /\ result[2].check.tag = "Pass"
  /\ ret = Continue

(***************************************************************************)
(* C3.  cheat_check! with a true condition records exactly one entry,      *)
(* under the supplied name and equal to Pass(expected), and writes         *)
(* nothing to the diagnostic stream.                                       *)
(***************************************************************************)
C3_CheckTrueRecordsPass ==
  /\ \A i \in DOMAIN log :
       IsCheckTrue(log[i]) =>
         /\ log[i].added = << [name |-> log[i].call.name,
                               check |-> Pass(log[i].call.expected)] >>
         /\ log[i].err = Nothing
  /\ InCheck /\ frame.cond => Written(stderr, frame.err0) = Nothing

C3_Witness ==
  \E i \in DOMAIN log :
    /\ IsCheckTrue(log[i])
    /\ Len(stderr) > 1
    /\ log[i].added[1].check.expected = Str("/mnt is a mountpoint")

(***************************************************************************)
(* C4.  cheat_check! with a false condition writes one diagnostic block    *)
(* to the diagnostic stream, with the name, protects, severity, every      *)
(* cheat numbered 1..N in input order and the consequence, and then        *)
(* records exactly one entry, under the supplied name and equal to         *)
(* Fail(expected, actual).  The block is complete when the entry is        *)
(* recorded: no entry is recorded while a statement of the block remains.  *)
(***************************************************************************)
C4_CheckFalseReportsThenRecords ==
  /\ \A i \in DOMAIN log :
       IsCheckFalse(log[i]) =>
         /\ log[i].err = DiagnosticLines(log[i].call)
         /\ log[i].added = << [name |-> log[i].call.name,
                               check |-> Fail(log[i].call.expected,
                                              log[i].call.actual)] >>
  /\ InCheck /\ ~frame.cond =>
       /\ Len(result) = frame.res0
       /\ pc = 211 => Written(stderr, frame.err0) = DiagnosticLines(frame)
       /\ pc # 211 => Written(stderr, frame.err0) # DiagnosticLines(frame)

C4_Witness ==
  \E i \in DOMAIN log :
    /\ IsCheckFalse(log[i])
    /\ Len(log[i].call.cheats) >= 2
    /\ Len(log[i].call.actual) > 1

(***************************************************************************)
(* C5.  cheat_bail! never returns normally: every invocation returns an    *)
(* error whose payload is the report of its five fields (PROTECTS,         *)
(* SEVERITY, the numbered cheats, the consequence and the error message,   *)
(* between borders); it writes nothing to either stream and leaves the     *)
(* StepResult alone.                                                       *)
(***************************************************************************)
C5_BailAlwaysFails ==
  \A i \in DOMAIN log :
    IsBail(log[i]) =>
      /\ log[i].ret.kind = "err"
      /\ log[i].ret.payload = ReportLines(log[i].call)
      /\ log[i].out = Nothing
      /\ log[i].err = Nothing
      /\ log[i].added = << >>

C5_Witness ==
  \E i \in DOMAIN log :
    /\ IsBail(log[i])
    /\ Len(log[i].call.cheats) >= 2
    /\ Len(result) > 0

(***************************************************************************)
(* C6.  A report numbers the N cheats 1..N in input order: right after     *)
(* the line CHEAT VECTORS: come the N lines "  i. <i-th entry>", i rising  *)
(* from 1 to N, followed by an empty line; no other line of the report     *)
(* carries a number, so none is numbered 0 or N+1 and no entry is          *)
(* skipped, repeated or moved.                                             *)
(***************************************************************************)
C6_CheatsNumberedInOrder ==
  \A e \in DOMAIN log :
    IsBail(log[e]) \/ IsEnsureFalse(log[e]) =>
      LET t == log[e].ret.payload
          cheats == log[e].call.cheats
          N == Len(cheats)
      IN /\ t[9] = "CHEAT VECTORS:"
         /\ \A i \in 1..N : t[9 + i] = NumberedLine(i, cheats[i])
         /\ t[9 + N + 1] = ""
         /\ NumberedAt(t, N + 1) = (9 + 1)..(9 + N)

C6_Witness ==
  \E e \in DOMAIN log :
    /\ IsBail(log[e])
    /\ Len(log[e].call.cheats) = MaxCheats
    /\ NumberedAt(log[e].ret.payload, MaxCheats) # {}

(***************************************************************************)
(* C7.  The shape of a failure text: its border lines and which of the     *)
(* five fields it shows.                                                   *)
(***************************************************************************)
Reported(e) == IsBail(e) \/ IsEnsureFalse(e) \/ IsCheckFalse(e)

\* the text a failing invocation shows: the error's payload, or the block
\* on the diagnostic stream
FailureText(e) == IF IsCheckFalse(e) THEN e.err ELSE e.ret.payload

\* a line made of "=" alone
IsBorder(line) ==
  /\ line # ""
  /\ Len(line) <= Len(Border70)
  /\ line = SubSeq(Border70, 1, Len(line))

BorderLines(t) == { t[l] : l \in { k \in DOMAIN t : IsBorder(t[k]) } }

FiveFields == { "protects", "severity", "cheats", "consequence", "error" }

FieldsShown(t) ==
  { f \in FiveFields :
      \E l \in DOMAIN t :
        CASE f = "protects" -> StartsWith(t[l], "PROTECTS: ")
          [] f = "severity" -> StartsWith(t[l], "SEVERITY: ")
          [] f = "cheats" -> StartsWith(t[l], "  1. ")
          [] f = "consequence" ->
               StartsWith(t[l], "CONSEQUENCE:") \/ StartsWith(t[l], "USER CONSEQUENCE:")
          [] f = "error" -> StartsWith(t[l], "ERROR:") }

DigitChars == { "0", "1", "2", "3", "4", "5", "6", "7", "8", "9" }

\* a line of the form "  <digit>. ..."
IsCheatLine(line) ==
  /\ Len(line) >= 5
  /\ SubSeq(line, 1, 2) = "  "
  /\ SubSeq(line, 3, 3) \in DigitChars
  /\ SubSeq(line, 4, 5) = ". "

\* the numbered cheat lines of a text, in order
CheatLinesOf(t) == SelectSeq(t, IsCheatLine)

\* C7 as claimed: every failure path renders the same five-field report
\* shape, with the same border.
C7_SameShapeOnEveryPath ==
  \A i, j \in DOMAIN log :
    Reported(log[i]) /\ Reported(log[j]) =>
      /\ FieldsShown(FailureText(log[i])) = FiveFields
      /\ BorderLines(FailureText(log[i])) = BorderLines(FailureText(log[j]))

\* C7 as the code has it: cheat_bail! and a failing cheat_ensure! render
\* the five fields between borders of 70 "="; the diagnostic block of a
\* failing cheat_check! shows protects, severity, the cheats and the
\* consequence, not an error message, between borders of 60 "=", under a
\* heading that names the check; the cheats are numbered the same way on
\* every path.
C7_ShapePerPath ==
  \A i \in DOMAIN log :
    LET t == FailureText(log[i]) IN
      /\ IsBail(log[i]) \/ IsEnsureFalse(log[i]) =>
           /\ FieldsShown(t) = FiveFields
           /\ BorderLines(t) = { Border70 }
      /\ IsCheckFalse(log[i]) =>
           /\ FieldsShown(t) = FiveFields \ { "error" }
           /\ BorderLines(t) = { Border60 }
           /\ t[3] = "CHEAT-GUARDED CHECK FAILED: " \o log[i].call.name[1]
      /\ Reported(log[i]) => CheatLinesOf(t) = NumberedLines(log[i].call.cheats)

C7_Witness ==
  \E i, j \in DOMAIN log :
    /\ IsCheckFalse(log[i])
    /\ IsBail(log[j])
    /\ log[i].call.cheats = log[j].call.cheats
    /\ Len(log[i].call.cheats) >= 2

(***************************************************************************)
(* C8.  Every cheat_check!, whatever its condition, writes exactly one     *)
(* line to the progress stream, with the name and protects, and writes it  *)
(* before anything goes to the diagnostic stream and before the entry is   *)
(* recorded.                                                               *)
(***************************************************************************)
C8_ProgressLineFirst ==
  /\ \A i \in DOMAIN log :
       log[i].call.op = "check" => log[i].out = ProgressLines(log[i].call)
  /\ InCheck =>
       /\ pc # 195 => Written(stdout, frame.out0) = ProgressLines(frame)
       /\ pc = 195 =>
            /\ Written(stdout, frame.out0) = Nothing
            /\ Written(stderr, frame.err0) = Nothing
            /\ Len(result) = frame.res0

C8_Witness ==
  /\ InCheck
  /\ pc = 205
  /\ Written(stdout, frame.out0) = ProgressLines(frame)
  /\ Len(stdout) > 2

(***************************************************************************)
(* C9.  The macros are deterministic and keep no state between             *)
(* invocations: two invocations of the same macro with the same arguments  *)
(* end the same way, with the same payload, the same text on each stream   *)
(* and the same entry recorded, whatever was invoked before them.          *)
(***************************************************************************)
C9_SameArgumentsSameOutcome ==
  \A i, j \in DOMAIN log : log[i].call = log[j].call => log[i] = log[j]

C9_Witness ==
  \E i, j \in DOMAIN log :
    /\ i < j
    /\ log[i].call = log[j].call
    /\ IsCheckFalse(log[i])

(***************************************************************************)
(* C10.  The k-th entry of the StepResult satisfies passed() exactly when  *)
(* the condition of the k-th check was true: passed() holds of the Pass    *)
(* entries and of no Fail entry, so the StepResult has an entry that did   *)
(* not pass exactly when some check had a false condition.                 *)
(***************************************************************************)
C10_PassedIffCondition ==
  LET cs == ChecksOf(log) IN
    /\ Len(result) = Len(cs)
    /\ \A k \in DOMAIN result :
         /\ passed(result[k].check) = cs[k].call.cond
         /\ passed(result[k].check) = (result[k].check.tag = "Pass")
    /\ (\E k \in DOMAIN result : ~passed(result[k].check))
         <=> (\E k \in DOMAIN cs : ~cs[k].call.cond)

C10_Witness ==
  /\ Len(result) = 2
  /\ passed(result[1].check)
  /\ ~passed(result[2].check)
  /\ result[1].name # result[2].name

====
